---- MODULE Spec2Model ----
(***************************************************************************)
(* Frame pipeline coordinator of ASCII Studio (src/src/App.tsx, the        *)
(* frame-indexed App component, lines 26-429): the single-flight convert   *)
(* loop, the frame buffer and its slicing, the debounce timer and the      *)
(* autoplay clock, together with the conversion service they call.         *)
(*                                                                         *)
(* Time is counted in steps of 50ms.  A frame's ASCII text is one row of   *)
(* `width` glyphs and a newline, so a conversion at width w yields w + 1   *)
(* bytes per frame.  A byte buffer is modelled by its length and by the    *)
(* request that produced it; a slice by its buffer and its byte range.     *)
(* The text on screen is the decoded slice of the last render: the length  *)
(* of the buffer it was cut from and its byte range.                       *)
(***************************************************************************)
EXTENDS Integers, Sequences, FiniteSets, TLC

\* ------------------------------------------------------------------------
\* Bounds of the model
\* ------------------------------------------------------------------------
MaxCount == 2        \* largest frame count a loaded source reports
MaxWidth == 2        \* widths are 1..MaxWidth
MaxPreview == 2      \* preview calls outstanding at once
MaxCalls == 2        \* conversion calls outstanding at once
MaxLoads == 2        \* sources opened in one run
MaxEdits == 2        \* slider movements in one run
MaxSliceCount == 5   \* frame counts of the buffers sliced on their own
MaxSliceSize == 10   \* frame sizes of the buffers sliced on their own
MaxSliceIdx == 10    \* frame indices asked of them

GifCounts == 1..MaxCount
Widths == 1..MaxWidth
Brightnesses == {0, 1}
Contrasts == {10}

\* ------------------------------------------------------------------------
\* Program constants (milliseconds)
\* ------------------------------------------------------------------------
DebounceMs == 150
FrameIntervalMs == 100

ElapsedCap == FrameIntervalMs + 50   \* elapsed times beyond it are alike

NoFrame == 0 - 1     \* onlyFrame === undefined
NoBurst == 0 - 1     \* no burst of edits on a loaded source yet
NoBuffer == [len |-> 0, frame |-> NoFrame, count |-> 0,
             width |-> 0, brightness |-> 0, contrast |-> 0]
NoText == [len |-> 0, start |-> 0, end |-> 0]
NoSize == <<0, 1>>   \* frameMetadata.size = 0, as the fraction 0/1

VARIABLES
  gifLoaded,          \* useState gifLoaded
  loading,            \* useState loading
  error,              \* useState error
  width, brightness, contrast,   \* useState parameters
  paramsRef,          \* useRef paramsRef
  isUpdating,         \* useRef isUpdating
  pendingUpdate,      \* useRef pendingUpdate
  asciiBuffer,        \* useRef asciiBuffer
  frameMetadata,      \* useRef frameMetadata: count, size (a fraction), raw
  currentFrameIdx,    \* useRef currentFrameIdx
  sinceLastFrame,     \* time - lastFrameTime.current, in ms, capped
  isInteractive,      \* useRef isInteractive
  debounceTimer,      \* the pending timeouts of handleParamChange, each
                      \* with the ms left and its closure; the ref names
                      \* the last one armed
  animationFrameId,   \* TRUE while the animate loop re-arms itself
  textContent,        \* asciiRef.current.textContent
  adjustedPreviewUrl, \* useState adjustedPreviewUrl
  loadCall,           \* the outstanding load_gif call
  convertCalls,       \* outstanding convert_gif_to_ascii calls
  previewCalls,       \* outstanding apply_adjustments_to_preview calls
  lastOp,             \* history: "paused" when the handler that ran last
                      \* was a tick held back by isInteractive alone
  bulkOwed,           \* history: the timer fired and no bulk call followed
  bulkIssued,         \* history: bulk calls issued since the burst of
                      \* edits began, if it began on a loaded source
  bulkFresh,          \* history: a bulk call carries the latest parameters
  failed,             \* history: a conversion failed since the last edit
  sinceEdit,          \* history: ms since the last edit, capped
  fired,              \* history: timeouts fired since the last edit
  burst,              \* history: edits of the current burst, each made
                      \* while the timeout of the one before was pending
  loads,              \* sources opened so far
  edits               \* slider movements so far

loadVars == <<gifLoaded, loading, loadCall, loads>>
paramVars == <<width, brightness, contrast, paramsRef, edits>>
flightVars == <<isUpdating, pendingUpdate, convertCalls>>
bufferVars == <<asciiBuffer, frameMetadata, textContent>>
clockVars == <<sinceLastFrame, animationFrameId>>
previewVars == <<adjustedPreviewUrl, previewCalls>>
bulkVars == <<bulkOwed, bulkIssued, bulkFresh, failed>>
editVars == <<sinceEdit, fired, burst>>

vars == <<gifLoaded, loading, error, width, brightness, contrast, paramsRef,
          isUpdating, pendingUpdate, asciiBuffer, frameMetadata,
          currentFrameIdx, sinceLastFrame, isInteractive, debounceTimer,
          animationFrameId, textContent, adjustedPreviewUrl, loadCall,
          convertCalls,
          previewCalls, lastOp, bulkOwed, bulkIssued, bulkFresh,
          failed, sinceEdit, fired, burst, loads, edits>>

\* ------------------------------------------------------------------------
\* Helpers
\* ------------------------------------------------------------------------
Min(a, b) == IF a < b THEN a ELSE b
Max(a, b) == IF a > b THEN a ELSE b

RemoveAt(s, i) == [j \in 1..(Len(s) - 1) |-> IF j < i THEN s[j] ELSE s[j + 1]]

RECURSIVE Gcd(_, _)
Gcd(a, b) == IF b = 0 THEN a ELSE Gcd(b, a % b)

\* The number n / d (d > 0) as a fraction in lowest terms.
Frac(n, d) == <<n \div Gcd(n, d), d \div Gcd(n, d)>>

\* Bytes per frame the service produces at a width.
FrameLen(w) == w + 1

\* The { width, brightness, contrast } object of the three state values.
Params(w, b, c) == [width |-> w, brightness |-> b, contrast |-> c]

\* ------------------------------------------------------------------------
\* renderFrame (App.tsx 101-121) and what it calls
\* ------------------------------------------------------------------------

\* Uint8Array.subarray(from, to) on a buffer of length len, the bounds
\* given as fractions num/den: each is truncated and clamped to the length.
subarray(buf, from, to, den) ==
  LET f == Min(from \div den, buf.len)
      t == Min(to \div den, buf.len)
  IN  [len |-> buf.len, start |-> f, end |-> Max(f, t)]

\* const isSingleFrameBuffer = buffer.length === size (size = num/den)
isSingleFrameBuffer(buf, size) == buf.len * size[2] = size[1]

\* The index used as it comes.
safeIdx_raw(idx, count) == idx

\* const safeIdx = idx % count
safeIdx(idx, count) == idx % count

\* start of the slice of frame idx, as a numerator over size[2]
sliceStart(idx, buf, count, size) ==
  IF isSingleFrameBuffer(buf, size) THEN 0 ELSE safeIdx(idx, count) * size[1]

\* The slice renderFrame decodes: buffer.subarray(start, start + size).
sliceFor(idx, buf, count, size) ==
  subarray(buf, sliceStart(idx, buf, count, size),
           sliceStart(idx, buf, count, size) + size[1], size[2])

\* updatePreview(frameIdx) as the closure of a render with gifLoaded =
\* loaded: the preview calls outstanding after it.  A call is kept with the
\* brightness and contrast it carries (the frame index it also carries
\* plays no part in what follows) and with a history mark: "current" while
\* its snapshot is the latest, "stale" once an edit has replaced it,
\* "superseded" once a response for a newer snapshot has been applied.
updatePreview(loaded, frameIdx, pcalls, pref) ==
  IF ~loaded THEN pcalls
  ELSE Append(pcalls, [brightness |-> pref.brightness,
                       contrast |-> pref.contrast, mark |-> "current"])

\* renderFrame(idx, bufferOverride): the text shown, the frame index and
\* the preview calls after it.  override = NoBuffer stands for undefined.
renderFrame(idx, override, abuf, meta, text, cur, loaded, pcalls, pref) ==
  LET buffer == IF override # NoBuffer THEN override ELSE abuf
  IN  IF buffer = NoBuffer \/ meta.count = 0
      THEN [text |-> text, idx |-> cur, pcalls |-> pcalls]
      ELSE [text |-> sliceFor(idx, buffer, meta.count, meta.size),
            idx |-> safeIdx(idx, meta.count),
            pcalls |-> updatePreview(loaded, safeIdx(idx, meta.count),
                                     pcalls, pref)]

\* Room for the preview call a render issues.
CanRender == Len(previewCalls) < MaxPreview

\* ------------------------------------------------------------------------
\* convert (App.tsx 123-191)
\* ------------------------------------------------------------------------

\* The call one iteration of the while loop issues (135-145); replay is a
\* history mark, true of the calls the loop issues after the first.
NewCall(onlyFrame, p, replay) ==
  [onlyFrame |-> onlyFrame, width |-> p.width,
   brightness |-> p.brightness, contrast |-> p.contrast, replay |-> replay]

\* The parameters a call carried.
CallParams(call) ==
  [width |-> call.width, brightness |-> call.brightness,
   contrast |-> call.contrast]

\* The loop reading the parameters once, before its first iteration.
loopParams_hoisted(pref, done) == CallParams(done)

\* The parameters an iteration of the loop reads (135): the ref as it is
\* now, whatever the call that just completed carried.
loopParams(pref, done) == pref

\* convert without the early return of lines 126-129.
convert_unguarded(loaded, onlyFrame, upd, pend, calls, pref) ==
  IF ~loaded THEN [isUpdating |-> upd, pendingUpdate |-> pend, calls |-> calls]
  ELSE [isUpdating |-> TRUE, pendingUpdate |-> FALSE,
        calls |-> Append(calls, NewCall(onlyFrame, pref, FALSE))]

\* convert(onlyFrame) up to its first await, as the closure of a render
\* with gifLoaded = loaded (125-145).
convert(loaded, onlyFrame, upd, pend, calls, pref) ==
  IF ~loaded THEN [isUpdating |-> upd, pendingUpdate |-> pend, calls |-> calls]
  ELSE IF upd THEN [isUpdating |-> upd, pendingUpdate |-> TRUE, calls |-> calls]
  ELSE [isUpdating |-> TRUE, pendingUpdate |-> FALSE,
        calls |-> Append(calls, NewCall(onlyFrame, pref, FALSE))]

\* frameMetadata after a response of data is measured and installed
\* (150-180); count is left as it is.
installMeta(meta, data, onlyFrame) ==
  IF onlyFrame # NoFrame
  THEN [meta EXCEPT !.size = Frac(data.len, 1), !.raw = data.len]
  ELSE [meta EXCEPT !.size = Frac(data.len, meta.count),
                    !.raw = data.len \div meta.count]

\* asciiBuffer after a response of data (172-180).
installBuffer(abuf, data, onlyFrame) ==
  IF onlyFrame # NoFrame THEN abuf ELSE data

\* ------------------------------------------------------------------------
\* History of the bulk calls (onlyFrame = null) issued
\* ------------------------------------------------------------------------

\* A bulk call carrying parameters p is issued.
BulkIssuedWith(p) ==
  /\ bulkIssued' = IF bulkIssued = NoBurst THEN NoBurst
                   ELSE Min(bulkIssued + 1, 2)
  /\ bulkFresh' = (p = paramsRef)
  /\ bulkOwed' = FALSE

\* r is what convert(onlyFrame) returned when called with calls outstanding.
Issued(r, calls) == Len(r.calls) > Len(calls)

\* ------------------------------------------------------------------------
\* Initial state: the component as mounted (App.tsx 28-53)
\* ------------------------------------------------------------------------
NoLoad == [count |-> 0, state |-> "none"]
NoPreview == [brightness |-> 0, contrast |-> 0]
TimerOff == <<>>

Init ==
  /\ gifLoaded = FALSE
  /\ loading = FALSE
  /\ error = ""
  /\ width = 1
  /\ brightness = 0
  /\ contrast = 10
  /\ paramsRef = Params(1, 0, 10)
  /\ isUpdating = FALSE
  /\ pendingUpdate = FALSE
  /\ asciiBuffer = NoBuffer
  /\ frameMetadata = [count |-> 0, size |-> NoSize, raw |-> 0]
  /\ currentFrameIdx = 0
  /\ sinceLastFrame = ElapsedCap
  /\ isInteractive = FALSE
  /\ debounceTimer = TimerOff
  /\ animationFrameId = FALSE
  /\ textContent = NoText
  /\ adjustedPreviewUrl = NoPreview
  /\ loadCall = NoLoad
  /\ convertCalls = <<>>
  /\ previewCalls = <<>>
  /\ sinceEdit = DebounceMs
  /\ fired = 0
  /\ burst = 0
  /\ lastOp = "other"
  /\ bulkOwed = FALSE
  /\ bulkIssued = NoBurst
  /\ bulkFresh = FALSE
  /\ failed = FALSE
  /\ loads = 0
  /\ edits = 0

\* ------------------------------------------------------------------------
\* handleOpen (App.tsx 197-221) and the effects of the render it causes
\* ------------------------------------------------------------------------

\* The dialog returns a path: setLoading(true), setError(""), load_gif sent.
HandleOpen(c) ==
  /\ ~loading
  /\ loads < MaxLoads
  /\ loads' = loads + 1
  /\ loading' = TRUE
  /\ error' = ""
  /\ loadCall' = [count |-> c, state |-> "sent"]
  /\ lastOp' = "other"
  /\ UNCHANGED <<editVars,
                 gifLoaded, paramVars, flightVars, bufferVars,
                 currentFrameIdx, clockVars, isInteractive, debounceTimer,
                 previewVars, bulkVars>>

\* The service decodes the source and caches its frames.
ServiceLoad ==
  /\ loadCall.state = "sent"
  /\ loadCall' = [loadCall EXCEPT !.state = "done"]
  /\ UNCHANGED <<editVars,
                 gifLoaded, loading, loads, error, paramVars, flightVars,
                 bufferVars, currentFrameIdx, clockVars, isInteractive,
                 debounceTimer, previewVars, lastOp, bulkVars>>

\* Frame count of the source the service holds.
svcCount ==
  IF loadCall.state = "done" THEN loadCall.count ELSE frameMetadata.count

\* frameMetadata after load_gif resolved with count (213).
loadedMeta(meta, count) == [meta EXCEPT !.count = count]

\* load_gif resolves (212-215).  When gifLoaded turns true the component
\* re-renders and its effects run: convert() (258-260) and the animation
\* effect (262-276); when it was true already nothing re-renders.
HandleOpenOk ==
  /\ loadCall.state = "done"
  /\ LET first == ~gifLoaded
         r == convert(TRUE, NoFrame, isUpdating, pendingUpdate, convertCalls,
                      paramsRef)
     IN  /\ frameMetadata' = loadedMeta(frameMetadata, loadCall.count)
         /\ gifLoaded' = TRUE
         /\ loading' = FALSE
         /\ isUpdating' = IF first THEN r.isUpdating ELSE isUpdating
         /\ pendingUpdate' = IF first THEN r.pendingUpdate ELSE pendingUpdate
         /\ convertCalls' = IF first THEN r.calls ELSE convertCalls
         /\ animationFrameId' =
              IF first THEN loadCall.count > 1 ELSE animationFrameId
         /\ IF first /\ Issued(r, convertCalls)
            THEN BulkIssuedWith(paramsRef)
            ELSE UNCHANGED <<bulkOwed, bulkIssued, bulkFresh>>
  /\ failed' = failed
  /\ loadCall' = NoLoad
  /\ lastOp' = "other"
  /\ UNCHANGED <<editVars,
                 loads, error, paramVars, asciiBuffer, textContent,
                 currentFrameIdx, sinceLastFrame, isInteractive,
                 debounceTimer, previewVars>>

\* load_gif rejects (217-220).
HandleOpenFail ==
  /\ loadCall.state = "sent"
  /\ error' = "load_gif"
  /\ loading' = FALSE
  /\ loadCall' = NoLoad
  /\ lastOp' = "other"
  /\ UNCHANGED <<editVars,
                 gifLoaded, loads, paramVars, flightVars, bufferVars,
                 currentFrameIdx, clockVars, isInteractive, debounceTimer,
                 previewVars, bulkVars>>

\* ------------------------------------------------------------------------
\* handleParamChange (App.tsx 247-256)
\* ------------------------------------------------------------------------

\* The parameter values one slider movement can lead to.
Edits ==
  {p \in [width : Widths, brightness : Brightnesses, contrast : Contrasts] :
     \/ p.width # width /\ p.brightness = brightness /\ p.contrast = contrast
     \/ p.width = width /\ p.brightness # brightness /\ p.contrast = contrast
     \/ p.width = width /\ p.brightness = brightness /\ p.contrast # contrast}

\* The parameters convert reads when handleParamChange calls it (250, 135):
\* the ref still holds the values of the last render; the effect of lines
\* 55-57 refreshes it after the handler has returned.
editParams(pref, edited) == pref

\* The timeouts pending without the one armed before.
clearTimeout_none(timers) == timers

\* if (debounceTimer.current) clearTimeout(debounceTimer.current) (251): the
\* timeout the ref names, the last one armed, is no longer pending.
clearTimeout(timers) ==
  IF timers = <<>> THEN timers ELSE SubSeq(timers, 1, Len(timers) - 1)

\* window.setTimeout(..., 150) (252-255) by a render with gifLoaded = loaded.
setTimeout(timers, loaded) ==
  Append(timers, [left |-> DebounceMs, loaded |-> loaded])

HandleParamChange(p) ==
  /\ p \in Edits
  /\ edits < MaxEdits
  /\ edits' = edits + 1
  /\ isInteractive' = TRUE
  /\ width' = p.width
  /\ brightness' = p.brightness
  /\ contrast' = p.contrast
  /\ LET r == convert(gifLoaded, currentFrameIdx, isUpdating, pendingUpdate,
                      convertCalls, editParams(paramsRef, p))
     IN  /\ isUpdating' = r.isUpdating
         /\ pendingUpdate' = r.pendingUpdate
         /\ convertCalls' = r.calls
  /\ debounceTimer' = setTimeout(clearTimeout(debounceTimer), gifLoaded)
  /\ sinceEdit' = 0
  /\ fired' = 0
  /\ burst' = IF debounceTimer = TimerOff THEN 1 ELSE burst + 1
  /\ paramsRef' = Params(p.width, p.brightness, p.contrast)
  /\ previewCalls' =
       IF p.brightness = brightness /\ p.contrast = contrast
       THEN previewCalls
       ELSE [j \in 1..Len(previewCalls) |->
               IF previewCalls[j].mark = "current"
               THEN [previewCalls[j] EXCEPT !.mark = "stale"]
               ELSE previewCalls[j]]
  /\ bulkIssued' = IF debounceTimer # TimerOff THEN bulkIssued
                   ELSE IF gifLoaded THEN 0 ELSE NoBurst
  /\ bulkFresh' = FALSE
  /\ bulkOwed' = FALSE
  /\ failed' = FALSE
  /\ lastOp' = "other"
  /\ UNCHANGED <<loadVars, error, bufferVars, currentFrameIdx, clockVars,
                 adjustedPreviewUrl>>

\* The timeout of lines 252-255 fires: it runs the convert of the render
\* that armed it.
\* isInteractive left as it is by the callback.
interactiveAfterFire_kept(interactive) == interactive

\* isInteractive.current = false (253)
interactiveAfterFire(interactive) == FALSE

DebounceFire(k) ==
  /\ k \in 1..Len(debounceTimer)
  /\ debounceTimer[k].left = 0
  /\ isInteractive' = interactiveAfterFire(isInteractive)
  /\ fired' = Min(fired + 1, 2)
  /\ LET r == convert(debounceTimer[k].loaded, NoFrame, isUpdating,
                      pendingUpdate, convertCalls, paramsRef)
     IN  /\ isUpdating' = r.isUpdating
         /\ pendingUpdate' = r.pendingUpdate
         /\ convertCalls' = r.calls
         /\ IF Issued(r, convertCalls)
            THEN BulkIssuedWith(paramsRef)
            ELSE /\ bulkOwed' = debounceTimer[k].loaded
                 /\ UNCHANGED <<bulkIssued, bulkFresh>>
  /\ debounceTimer' = RemoveAt(debounceTimer, k)
  /\ lastOp' = "other"
  /\ UNCHANGED <<sinceEdit, burst,
                 loadVars, error, paramVars, bufferVars, currentFrameIdx,
                 clockVars, previewVars, failed>>

\* 50ms pass.
Elapse ==
  /\ \/ sinceLastFrame < ElapsedCap
     \/ \E k \in 1..Len(debounceTimer) : debounceTimer[k].left > 0
  /\ sinceLastFrame' = Min(sinceLastFrame + 50, ElapsedCap)
  /\ sinceEdit' = Min(sinceEdit + 50, DebounceMs)
  /\ debounceTimer' =
       [k \in 1..Len(debounceTimer) |->
          [debounceTimer[k] EXCEPT !.left = Max(debounceTimer[k].left - 50, 0)]]
  /\ UNCHANGED <<fired, burst,
                 loadVars, error, paramVars, flightVars, bufferVars,
                 currentFrameIdx, isInteractive, animationFrameId,
                 previewVars, lastOp, bulkVars>>

\* ------------------------------------------------------------------------
\* animate (App.tsx 264-270)
\* ------------------------------------------------------------------------

\* The test of line 265 without its first conjunct.
advances_always(interactive, elapsed) == elapsed > FrameIntervalMs

\* if (!isInteractive.current && time - lastFrameTime.current > 100)
advances(interactive, elapsed) == ~interactive /\ elapsed > FrameIntervalMs

Animate ==
  /\ animationFrameId
  /\ IF advances(isInteractive, sinceLastFrame)
     THEN /\ CanRender
          /\ LET r == renderFrame(currentFrameIdx + 1, NoBuffer, asciiBuffer,
                                  frameMetadata, textContent, currentFrameIdx,
                                  TRUE, previewCalls, paramsRef)
             IN  /\ textContent' = r.text
                 /\ currentFrameIdx' = r.idx
                 /\ previewCalls' = r.pcalls
          /\ sinceLastFrame' = 0
          /\ lastOp' = "other"
     ELSE /\ lastOp' = IF advances(FALSE, sinceLastFrame)
                        THEN "paused" ELSE "other"
          /\ UNCHANGED <<textContent, currentFrameIdx, previewCalls,
                         sinceLastFrame>>
  /\ UNCHANGED <<editVars,
                 loadVars, error, paramVars, flightVars, asciiBuffer,
                 frameMetadata, isInteractive, debounceTimer, animationFrameId,
                 adjustedPreviewUrl, bulkVars>>

\* ------------------------------------------------------------------------
\* convert, from the await on (App.tsx 147-188)
\* ------------------------------------------------------------------------

\* What convert_gif_to_ascii returns for a call, on a source of count
\* frames: every frame concatenated, or the one frame asked for.
Response(call, count) ==
  [len |-> IF call.onlyFrame = NoFrame
           THEN count * FrameLen(call.width) ELSE FrameLen(call.width),
   frame |-> call.onlyFrame, count |-> count, width |-> call.width,
   brightness |-> call.brightness, contrast |-> call.contrast]

\* The frame and the buffer override the response handler renders with
\* (174, 179).
renderArgs(onlyFrame, data, cur) ==
  IF onlyFrame # NoFrame THEN [idx |-> onlyFrame, override |-> data]
                         ELSE [idx |-> cur, override |-> NoBuffer]

\* The replay flag left set when the loop goes round.
pendingAtReplay_kept(pend) == pend

\* pendingUpdate.current = false (134), at the head of the iteration the
\* loop starts when it does not break at 182.
pendingAtReplay(pend) == FALSE

\* The i-th outstanding call resolves: its response is measured, installed
\* and rendered (147-181), then the loop either replays or ends (182-188).
ConvertOk(i) ==
  /\ i \in 1..Len(convertCalls)
  /\ CanRender
  /\ LET call == convertCalls[i]
         data == Response(call, svcCount)
         meta == IF data.len > 0
                 THEN installMeta(frameMetadata, data, call.onlyFrame)
                 ELSE frameMetadata
         abuf == IF data.len > 0
                 THEN installBuffer(asciiBuffer, data, call.onlyFrame)
                 ELSE asciiBuffer
         a == renderArgs(call.onlyFrame, data, currentFrameIdx)
         r == IF data.len > 0
              THEN renderFrame(a.idx, a.override, abuf, meta, textContent,
                               currentFrameIdx, TRUE, previewCalls, paramsRef)
              ELSE [text |-> textContent, idx |-> currentFrameIdx,
                    pcalls |-> previewCalls]
         rest == RemoveAt(convertCalls, i)
     IN  /\ frameMetadata' = meta
         /\ asciiBuffer' = abuf
         /\ textContent' = r.text
         /\ currentFrameIdx' = r.idx
         /\ previewCalls' = r.pcalls
         /\ IF pendingUpdate
            THEN /\ pendingUpdate' = pendingAtReplay(pendingUpdate)
                 /\ convertCalls' =
                      Append(rest, NewCall(call.onlyFrame,
                                           loopParams(paramsRef, call), TRUE))
                 /\ UNCHANGED isUpdating
                 /\ lastOp' = "other"
                 /\ IF call.onlyFrame = NoFrame
                    THEN BulkIssuedWith(loopParams(paramsRef, call))
                    ELSE UNCHANGED <<bulkOwed, bulkIssued, bulkFresh>>
            ELSE /\ isUpdating' = FALSE
                 /\ convertCalls' = rest
                 /\ UNCHANGED pendingUpdate
                 /\ lastOp' = "other"
                 /\ UNCHANGED <<bulkOwed, bulkIssued, bulkFresh>>
  /\ UNCHANGED <<editVars,
                 loadVars, error, paramVars, clockVars, isInteractive,
                 debounceTimer, adjustedPreviewUrl, failed>>

\* A catch block that also drops the buffer.
ConvertFail_clearing(i) ==
  /\ i \in 1..Len(convertCalls)
  /\ error' = "convert_gif_to_ascii"
  /\ isUpdating' = FALSE
  /\ convertCalls' = RemoveAt(convertCalls, i)
  /\ asciiBuffer' = NoBuffer
  /\ failed' = TRUE
  /\ lastOp' = "other"
  /\ UNCHANGED <<editVars,
                 loadVars, paramVars, pendingUpdate, frameMetadata,
                 textContent, currentFrameIdx, clockVars, isInteractive,
                 debounceTimer, previewVars, bulkOwed, bulkIssued, bulkFresh>>

\* The rejection handled without the finally block of lines 186-188.
ConvertFail_noFinally(i) ==
  /\ i \in 1..Len(convertCalls)
  /\ error' = "convert_gif_to_ascii"
  /\ convertCalls' = RemoveAt(convertCalls, i)
  /\ failed' = TRUE
  /\ lastOp' = "other"
  /\ UNCHANGED <<editVars,
                 loadVars, paramVars, isUpdating, pendingUpdate, bufferVars,
                 currentFrameIdx, clockVars, isInteractive, debounceTimer,
                 previewVars, bulkOwed, bulkIssued, bulkFresh>>

\* The i-th outstanding call rejects (184-188).
ConvertFail(i) ==
  /\ i \in 1..Len(convertCalls)
  /\ error' = "convert_gif_to_ascii"
  /\ isUpdating' = FALSE
  /\ convertCalls' = RemoveAt(convertCalls, i)
  /\ failed' = TRUE
  /\ lastOp' = "other"
  /\ UNCHANGED <<editVars,
                 loadVars, paramVars, pendingUpdate, bufferVars,
                 currentFrameIdx, clockVars, isInteractive, debounceTimer,
                 previewVars, bulkOwed, bulkIssued, bulkFresh>>

\* ------------------------------------------------------------------------
\* updatePreview, from the await on (App.tsx 88-96)
\* ------------------------------------------------------------------------

\* The image shown once the response to call has arrived (93): the image
\* of the call's brightness and contrast, whatever was shown before.
applied(url, call) ==
  [brightness |-> call.brightness, contrast |-> call.contrast]

\* The j-th outstanding preview call resolves: setAdjustedPreviewUrl(b64).
PreviewOk(j) ==
  /\ j \in 1..Len(previewCalls)
  /\ adjustedPreviewUrl' = applied(adjustedPreviewUrl, previewCalls[j])
  /\ previewCalls' =
       LET rest == RemoveAt(previewCalls, j)
       IN  IF previewCalls[j].mark = "current"
           THEN [k \in 1..Len(rest) |->
                   IF rest[k].mark = "stale"
                   THEN [rest[k] EXCEPT !.mark = "superseded"] ELSE rest[k]]
           ELSE rest
  /\ lastOp' = "other"
  /\ UNCHANGED <<editVars,
                 loadVars, error, paramVars, flightVars, bufferVars,
                 currentFrameIdx, clockVars, isInteractive, debounceTimer,
                 bulkVars>>

\* The j-th outstanding preview call rejects: console.error only.
PreviewFail(j) ==
  /\ j \in 1..Len(previewCalls)
  /\ previewCalls' = RemoveAt(previewCalls, j)
  /\ lastOp' = "other"
  /\ UNCHANGED <<editVars,
                 loadVars, error, paramVars, flightVars, bufferVars,
                 currentFrameIdx, clockVars, isInteractive, debounceTimer,
                 adjustedPreviewUrl, bulkVars>>

\* ------------------------------------------------------------------------
\* handleDownload (App.tsx 223-245)
\* ------------------------------------------------------------------------

\* i * size, the bound of the i-th frame of the export loop (236), as a
\* numerator over size[2].
exportStart(i, size) == i * size[1]

\* handleDownload from the path the save dialog returns to the end: the
\* frames, frame n from exportStart(n - 1) to exportStart(n), are cut from
\* the buffer and sent with save_ascii_to_file (230-240),
\* which resolves (ok) or rejects (242-244).  Nothing the component keeps
\* is written between the call and its outcome, and the outcome writes
\* nothing but the error, so the two are taken in one step.
HandleDownload(ok) ==
  /\ asciiBuffer # NoBuffer
  /\ error' = IF ok THEN error ELSE "save_ascii_to_file"
  /\ lastOp' = "other"
  /\ UNCHANGED <<loadVars, paramVars, flightVars, bufferVars,
                 currentFrameIdx, clockVars, isInteractive, debounceTimer,
                 previewVars, bulkVars, editVars>>

\* ------------------------------------------------------------------------
\* The component and its service
\* ------------------------------------------------------------------------
Next ==
  \/ \E c \in GifCounts : HandleOpen(c)
  \/ ServiceLoad
  \/ HandleOpenOk
  \/ HandleOpenFail
  \/ \E p \in [width : Widths, brightness : Brightnesses,
               contrast : Contrasts] : HandleParamChange(p)
  \/ \E k \in 1..MaxEdits : DebounceFire(k)
  \/ Elapse
  \/ Animate
  \/ \E i \in 1..MaxCalls : ConvertOk(i)
  \/ \E i \in 1..MaxCalls : ConvertFail(i)
  \/ \E j \in 1..MaxPreview : PreviewOk(j)
  \/ \E j \in 1..MaxPreview : PreviewFail(j)
  \/ \E ok \in BOOLEAN : HandleDownload(ok)

Spec == Init /\ [][Next]_vars

\* ------------------------------------------------------------------------
\* renderFrame on its own: a source of count frames is loaded, its bulk
\* buffer of count * size bytes is installed, and any frame is rendered.
\* ------------------------------------------------------------------------
SliceInit ==
  \E count \in 2..MaxSliceCount, size \in 1..MaxSliceSize :
    /\ gifLoaded = TRUE
    /\ loading = FALSE
    /\ error = ""
    /\ width = size - 1
    /\ brightness = 0
    /\ contrast = 10
    /\ paramsRef = Params(size - 1, 0, 10)
    /\ isUpdating = FALSE
    /\ pendingUpdate = FALSE
    /\ asciiBuffer = Response(NewCall(NoFrame, Params(size - 1, 0, 10),
                                      FALSE), count)
    /\ frameMetadata = [count |-> count, size |-> Frac(size, 1), raw |-> size]
    /\ currentFrameIdx = 0
    /\ sinceLastFrame = ElapsedCap
    /\ isInteractive = FALSE
    /\ debounceTimer = TimerOff
    /\ animationFrameId = TRUE
    /\ textContent = NoText
    /\ adjustedPreviewUrl = NoPreview
    /\ loadCall = NoLoad
    /\ convertCalls = <<>>
    /\ previewCalls = <<>>
    /\ sinceEdit = DebounceMs
    /\ fired = 0
    /\ burst = 0
    /\ lastOp = "other"
    /\ bulkOwed = FALSE
    /\ bulkIssued = NoBurst
    /\ bulkFresh = TRUE
    /\ failed = FALSE
    /\ loads = 1
    /\ edits = 0

\* renderFrame(i) on the installed buffer.
SliceRender(i) ==
  /\ CanRender
  /\ LET r == renderFrame(i, NoBuffer, asciiBuffer, frameMetadata,
                          textContent, currentFrameIdx, TRUE, previewCalls,
                          paramsRef)
     IN  /\ textContent' = r.text
         /\ currentFrameIdx' = r.idx
         /\ previewCalls' = r.pcalls
  /\ lastOp' = "other"
  /\ UNCHANGED <<editVars,
                 loadVars, error, paramVars, flightVars, asciiBuffer,
                 frameMetadata, clockVars, isInteractive, debounceTimer,
                 adjustedPreviewUrl, bulkVars>>

SliceNext ==
  \/ \E i \in 0..MaxSliceIdx : SliceRender(i)
  \/ \E j \in 1..MaxPreview : PreviewOk(j)
  \/ \E j \in 1..MaxPreview : PreviewFail(j)

SpecSlice == SliceInit /\ [][SliceNext]_vars

\* ------------------------------------------------------------------------
\* The coordinator with services that answer every call: sources are
\* opened, parameters are edited, the timeout fires, and every load_gif,
\* convert_gif_to_ascii and apply_adjustments_to_preview call resolves.
\* A conversion call outstanding is answered in the end, and so is a
\* preview call (the response handler waits for room for the preview call
\* its render issues).  Edits stop: there are at most MaxEdits of them.
\* ------------------------------------------------------------------------
NextAnswered ==
  \/ \E c \in GifCounts : HandleOpen(c)
  \/ ServiceLoad
  \/ HandleOpenOk
  \/ \E p \in [width : Widths, brightness : Brightnesses,
               contrast : Contrasts] : HandleParamChange(p)
  \/ \E k \in 1..MaxEdits : DebounceFire(k)
  \/ Elapse
  \/ \E i \in 1..MaxCalls : ConvertOk(i)
  \/ \E j \in 1..MaxPreview : PreviewOk(j)

SpecAnswered ==
  /\ Init
  /\ [][NextAnswered]_vars
  /\ WF_vars(\E i \in 1..MaxCalls : ConvertOk(i))
  /\ WF_vars(\E j \in 1..MaxPreview : PreviewOk(j))

\* ------------------------------------------------------------------------
\* Properties
\* ------------------------------------------------------------------------

\* C1: at most one convert_gif_to_ascii call, single-frame or bulk, is
\* outstanding at any time, and isUpdating is true while it is: a convert()
\* made meanwhile issues no call.
C1_SingleFlight ==
  /\ Len(convertCalls) <= 1
  /\ Len(convertCalls) = 1 => isUpdating

\* A convert() was made while a call was outstanding and issued none.
C1_Witness == isUpdating /\ pendingUpdate /\ Len(convertCalls) = 1

\* The coordinator is at rest after a burst of edits that began on a
\* loaded source: the timer has fired since the last edit, no call is
\* outstanding and none has failed since that edit.
AtRestAfterBurst ==
  /\ gifLoaded
  /\ bulkIssued # NoBurst
  /\ ~isInteractive
  /\ debounceTimer = TimerOff
  /\ ~isUpdating
  /\ ~failed
  /\ error = ""

\* C2: a burst of edits within the debounce window leads to exactly one
\* bulk call (onlyFrame = null) issued since the burst began, and that call
\* carries the final parameter values.
C2_OneTrailingBulk == AtRestAfterBurst => (bulkIssued = 1 /\ bulkFresh)

\* C3: once the debounce timer has fired on a loaded source, isInteractive
\* is false and a bulk call is issued, at once or by the replay of the call
\* that was in flight: while it is owed and nothing has failed, a call is
\* outstanding.
C3_DebounceIssuesBulk ==
  (bulkOwed /\ ~failed /\ error = "") => (~isInteractive /\ isUpdating)

\* C4: when a call completes with pendingUpdate set, pendingUpdate is
\* cleared and the call the loop issues next carries the width, brightness
\* and contrast paramsRef holds at that moment.
C4_ReplayLatest ==
  [][(pendingUpdate /\ \E i \in 1..Len(convertCalls) : ConvertOk(i))
       => /\ pendingUpdate' = FALSE
          /\ convertCalls' # <<>>
          /\ convertCalls'[Len(convertCalls')].replay
          /\ CallParams(convertCalls'[Len(convertCalls')]) = paramsRef]_vars

\* A replayed bulk call is outstanding that carries other parameters than
\* the call before it, whose response is the installed buffer.
C4_Witness ==
  /\ Len(convertCalls) = 1
  /\ convertCalls[1].replay
  /\ convertCalls[1].onlyFrame = NoFrame
  /\ asciiBuffer # NoBuffer
  /\ CallParams(convertCalls[1]) = paramsRef
  /\ CallParams(convertCalls[1]) #
       Params(asciiBuffer.width, asciiBuffer.brightness, asciiBuffer.contrast)

\* C5: while isInteractive is true, a tick of the animation clock leaves
\* currentFrameIdx and the text shown as they were, however much time has
\* passed since the last advance.
C5_InteractiveHolds ==
  [][(isInteractive /\ Animate)
       => /\ currentFrameIdx' = currentFrameIdx
          /\ textContent' = textContent]_vars

\* A tick came more than 100ms after the last advance, on a source of
\* several frames with its buffer installed, and isInteractive held it back.
C5_Witness ==
  /\ lastOp = "paused"
  /\ isInteractive
  /\ frameMetadata.count > 1
  /\ asciiBuffer # NoBuffer

\* C6: on a multi-frame buffer of count * size bytes, count > 1, rendering
\* frame i shows the bytes from (i mod count) * size to (i mod count) * size
\* + size, so frames i and i + k * count show the same bytes.
C6_SliceWraps ==
  LET count == frameMetadata.count
      size == frameMetadata.size[1]
      Slice(i) == sliceFor(i, asciiBuffer, count, frameMetadata.size)
  IN  /\ \A i \in 0..MaxSliceIdx :
           /\ Slice(i).start = (i % count) * size
           /\ Slice(i).end = (i % count) * size + size
           /\ \A k \in 0..2 : Slice(i + k * count) = Slice(i)
      /\ textContent # NoText => textContent = Slice(currentFrameIdx)

\* Frame 7 or 2 of five frames of ten bytes was rendered: bytes 20 to 30.
C6_Witness ==
  /\ frameMetadata.count = 5
  /\ frameMetadata.size = <<10, 1>>
  /\ asciiBuffer.len = 50
  /\ currentFrameIdx = 2
  /\ textContent = [len |-> 50, start |-> 20, end |-> 30]

\* C7: a bulk response whose length is not a multiple of the frame count is
\* rejected as InvalidLayout, and neither the buffer nor the frame size is
\* installed.
C7_RejectsInvalidLayout ==
  [][\A i \in 1..Len(convertCalls) :
       (/\ ConvertOk(i)
        /\ convertCalls[i].onlyFrame = NoFrame
        /\ frameMetadata.count > 0
        /\ Response(convertCalls[i], svcCount).len % frameMetadata.count # 0)
       => /\ asciiBuffer' = asciiBuffer
          /\ frameMetadata'.size = frameMetadata.size
          /\ error' = "InvalidLayout"]_vars

\* C8: the response to a preview call issued against an older parameter
\* snapshot, arriving after the response for a newer snapshot was applied,
\* is discarded: the image shown stays.
C8_StalePreviewDiscarded ==
  [][\A j \in 1..Len(previewCalls) :
       (PreviewOk(j) /\ previewCalls[j].mark = "superseded")
       => adjustedPreviewUrl' = adjustedPreviewUrl]_vars

\* C9: a conversion call that fails leaves the frame buffer, the frame
\* metadata, the frame index and the text shown as they were; the error
\* is what changes.
C9_FailureKeepsState ==
  [][(\E i \in 1..Len(convertCalls) : ConvertFail(i))
       => /\ asciiBuffer' = asciiBuffer
          /\ frameMetadata' = frameMetadata
          /\ currentFrameIdx' = currentFrameIdx
          /\ textContent' = textContent
          /\ error' = "convert_gif_to_ascii"]_vars

\* A call failed while a bulk buffer was installed and a frame was shown.
C9_Witness ==
  /\ failed
  /\ error = "convert_gif_to_ascii"
  /\ asciiBuffer # NoBuffer
  /\ textContent # NoText
  /\ currentFrameIdx > 0

\* C10: with no call outstanding the in-flight flag is false, also after a
\* failure, so the next convert() on a loaded source issues a call: no
\* state has requests coalesced behind a call that is not there.
C10_NoStuckFlag == convertCalls = <<>> => ~isUpdating

\* A call is outstanding that convert() issued after an earlier call failed.
C10_Witness ==
  /\ error = "convert_gif_to_ascii"
  /\ gifLoaded
  /\ isUpdating
  /\ Len(convertCalls) = 1
  /\ ~convertCalls[1].replay

\* C11: whenever the source has frames and a bulk buffer is installed, the
\* buffer's length is frameMetadata.count * frameMetadata.size.
C11_BufferLayout ==
  (frameMetadata.count > 0 /\ asciiBuffer # NoBuffer)
    => asciiBuffer.len * frameMetadata.size[2] =
         frameMetadata.count * frameMetadata.size[1]

\* C12: every load_gif that resolves leaves currentFrameIdx at 0.
C12_LoadResetsIndex == [][HandleOpenOk => currentFrameIdx' = 0]_vars

\* C13: a conversion response, single-frame or bulk, leaves currentFrameIdx
\* as it was when the response arrived.
C13_ResponseKeepsIndex ==
  [][(\E i \in 1..Len(convertCalls) : ConvertOk(i))
       => currentFrameIdx' = currentFrameIdx]_vars

\* C14: every failure of an external call (load_gif, convert_gif_to_ascii,
\* apply_adjustments_to_preview, save_ascii_to_file) leaves an error to
\* show and leaves the buffer, the metadata, the frame index and the text
\* shown as they were.
C14_FailuresRecorded ==
  [][(\/ HandleOpenFail
      \/ \E i \in 1..Len(convertCalls) : ConvertFail(i)
      \/ \E j \in 1..Len(previewCalls) : PreviewFail(j)
      \/ HandleDownload(FALSE))
       => /\ error' # ""
          /\ asciiBuffer' = asciiBuffer
          /\ frameMetadata' = frameMetadata
          /\ currentFrameIdx' = currentFrameIdx
          /\ textContent' = textContent]_vars

\* C15: whenever no call is in flight no replay is owed: isUpdating false
\* implies pendingUpdate false, also after the call in flight has failed.
C15_NoReplayOwed == ~isUpdating => ~pendingUpdate

\* The bytes from start to start + size (numerators over size[2]) lie
\* within buf.
InBuffer(start, size, buf) ==
  /\ start >= 0
  /\ start + size[1] <= buf.len * size[2]

\* C16: the byte range renderFrame computes, on a tick and on a response,
\* and every byte range the export loop computes lie within the buffer
\* sliced.
C16_SliceInBounds ==
  [][/\ (/\ Animate
          /\ advances(isInteractive, sinceLastFrame)
          /\ asciiBuffer # NoBuffer
          /\ frameMetadata.count > 0)
         => InBuffer(sliceStart(currentFrameIdx + 1, asciiBuffer,
                                frameMetadata.count, frameMetadata.size),
                     frameMetadata.size, asciiBuffer)
     /\ \A i \in 1..Len(convertCalls) :
          (ConvertOk(i) /\ Response(convertCalls[i], svcCount).len > 0)
          => LET data == Response(convertCalls[i], svcCount)
                 a == renderArgs(convertCalls[i].onlyFrame, data,
                                 currentFrameIdx)
                 buf == IF a.override # NoBuffer THEN a.override
                                                 ELSE asciiBuffer'
             IN  frameMetadata'.count > 0
                 => InBuffer(sliceStart(a.idx, buf, frameMetadata'.count,
                                        frameMetadata'.size),
                             frameMetadata'.size, buf)
     /\ (\E ok \in BOOLEAN : HandleDownload(ok))
         => \A n \in 1..frameMetadata.count :
              InBuffer(exportStart(n - 1, frameMetadata.size),
                       frameMetadata.size, asciiBuffer)]_vars

\* C17: isInteractive is true exactly while a timeout is pending: an edit
\* sets isInteractive and arms one, only a timeout firing clears
\* isInteractive, and nothing else changes either.
C17_InteractiveIffArmed ==
  /\ [](isInteractive <=> debounceTimer # TimerOff)
  /\ [][((\E p \in Edits : HandleParamChange(p))
            => (isInteractive' /\ debounceTimer' # TimerOff))
        /\ ((isInteractive /\ ~isInteractive')
            => (\E k \in 1..Len(debounceTimer) : DebounceFire(k)))
        /\ ((~isInteractive /\ isInteractive')
            => (\E p \in Edits : HandleParamChange(p)))
        /\ (((debounceTimer = TimerOff) # (debounceTimer' = TimerOff))
            => ((\E p \in Edits : HandleParamChange(p))
                \/ (\E k \in 1..Len(debounceTimer) : DebounceFire(k))))
       ]_vars

\* An edit was made and its timeout has fired: nothing is armed and
\* isInteractive is false again.
C17_Witness ==
  /\ edits > 0
  /\ fired = 1
  /\ ~isInteractive
  /\ debounceTimer = TimerOff

\* C18: at most one timeout is pending; an edit cancels the pending one and
\* arms a new one of 150ms; a timeout fires only when 150ms have passed
\* since the last edit, so a burst of edits is followed by one fire.
C18_TrailingDebounce ==
  /\ [](/\ Len(debounceTimer) <= 1
        /\ fired <= 1
        /\ ((edits > 0 /\ debounceTimer = TimerOff) => fired = 1))
  /\ [][((\E p \in Edits : HandleParamChange(p))
            => debounceTimer' = <<[left |-> DebounceMs, loaded |-> gifLoaded]>>)
        /\ ((\E k \in 1..Len(debounceTimer) : DebounceFire(k))
            => sinceEdit = DebounceMs)
       ]_vars

\* A burst of two edits on a loaded source was followed by one fire.
C18_Witness ==
  /\ gifLoaded
  /\ burst = 2
  /\ fired = 1
  /\ debounceTimer = TimerOff

\* C19: outside interactive mode, with several frames and a buffer
\* installed, a tick at which 100ms or more have passed since the last
\* advance, exactly 100ms included, sets currentFrameIdx to
\* (currentFrameIdx + 1) mod count and restarts the count of elapsed time;
\* a tick with less elapsed changes neither.  No tick the clock can take
\* does otherwise.
C19_AdvanceAtInterval ==
  (/\ animationFrameId
   /\ ~isInteractive
   /\ frameMetadata.count > 1
   /\ asciiBuffer # NoBuffer)
    => ~ENABLED (/\ Animate
                 /\ ~(IF sinceLastFrame >= FrameIntervalMs
                      THEN /\ currentFrameIdx' =
                                (currentFrameIdx + 1) % frameMetadata.count
                           /\ sinceLastFrame' = 0
                      ELSE /\ currentFrameIdx' = currentFrameIdx
                           /\ sinceLastFrame' = sinceLastFrame))

\* C20: after every load_gif that resolves with more than one frame the
\* animation clock is running.
C20_ClockAfterLoad ==
  [][(HandleOpenOk /\ loadCall.count > 1) => animationFrameId']_vars

\* C21: when edits have stopped and every call is answered, the replay loop
\* ends: from some moment on no call is in flight, isUpdating is false and
\* no replay is pending.  A response is followed by at most one further
\* call, issued only when a replay was pending, and the loop ends with that
\* response otherwise.
C21_ReplayTerminates ==
  /\ <>[](~isUpdating /\ ~pendingUpdate /\ convertCalls = <<>>)
  /\ [][(\E i \in 1..Len(convertCalls) : ConvertOk(i))
          => (/\ Len(convertCalls') <= Len(convertCalls)
              /\ ~pendingUpdate'
              /\ (pendingUpdate <=> Len(convertCalls') = Len(convertCalls))
              /\ (isUpdating' <=> pendingUpdate))]_vars

\* The loop has ended after two replays of a bulk call in one burst of
\* edits: nothing is in flight, nothing is pending, the timeout has fired.
C21_Witness ==
  /\ gifLoaded
  /\ bulkIssued = 2
  /\ fired = 1
  /\ debounceTimer = TimerOff
  /\ ~isUpdating
  /\ ~pendingUpdate
  /\ convertCalls = <<>>

\* The text renderFrame shows when it cuts frame idx out of a bulk buffer:
\* the bytes from (idx mod count) * size to (idx mod count) * size + size.
FrameOf(idx, buf, meta) ==
  subarray(buf, (idx % meta.count) * meta.size[1],
           (idx % meta.count) * meta.size[1] + meta.size[1], meta.size[2])

\* C22: a render of the installed bulk buffer on a source of several
\* frames, by a tick or by a bulk response, never shows the whole buffer as
\* one frame: it shows the bytes of frame idx mod count, whatever frame
\* sizes single-frame responses have recorded since the buffer was installed.
C22_LayoutsDistinguished ==
  [][((/\ Animate
       /\ advances(isInteractive, sinceLastFrame)
       /\ asciiBuffer # NoBuffer
       /\ frameMetadata.count > 1)
      => (/\ ~isSingleFrameBuffer(asciiBuffer, frameMetadata.size)
          /\ textContent' = FrameOf(currentFrameIdx + 1, asciiBuffer,
                                    frameMetadata)))
     /\ (\A i \in 1..Len(convertCalls) :
           (/\ ConvertOk(i)
            /\ convertCalls[i].onlyFrame = NoFrame
            /\ frameMetadata'.count > 1)
           => (/\ ~isSingleFrameBuffer(asciiBuffer', frameMetadata'.size)
               /\ textContent' = FrameOf(currentFrameIdx, asciiBuffer',
                                         frameMetadata')))]_vars

\* C23: an edit made on a loaded source while no call is in flight issues a
\* single-frame call for the frame shown, and that call carries the width,
\* brightness and contrast the edit has just set.
C23_EditCallCarriesEdit ==
  [][\A p \in Edits :
       (HandleParamChange(p) /\ gifLoaded /\ ~isUpdating)
       => (/\ Len(convertCalls') = Len(convertCalls) + 1
           /\ convertCalls'[Len(convertCalls')].onlyFrame = currentFrameIdx
           /\ CallParams(convertCalls'[Len(convertCalls')]) = p)]_vars

\* C24: whenever a source is loaded, no conversion call is in flight, no
\* timeout is armed and no conversion has failed since the last edit, the
\* installed bulk buffer is the response to a bulk call that carried the
\* width, brightness and contrast now set.
C24_QuiescentBufferCurrent ==
  (/\ gifLoaded
   /\ ~isUpdating
   /\ convertCalls = <<>>
   /\ debounceTimer = TimerOff
   /\ ~failed)
    => (/\ asciiBuffer # NoBuffer
        /\ asciiBuffer.frame = NoFrame
        /\ Params(asciiBuffer.width, asciiBuffer.brightness,
                  asciiBuffer.contrast) = Params(width, brightness, contrast))

====
